---- MODULE Spec2Model ----
(***************************************************************************)
(* Model of sample_apps/multi_agent/app.py: the Streamlit page of the      *)
(* "Image Analysis & Shopping Assistant".  One user session is modelled:   *)
(* its session_state, the upload widget, what the last script run drew,    *)
(* and the position of the running script inside main().                   *)
(*                                                                         *)
(* main() is run from its first line on every user interaction.  The       *)
(* analyze branch is modelled statement by statement, because two awaited  *)
(* collaborator calls (initialize_chat, process_image_and_get_responses)   *)
(* may each return or raise.  The collaborators live in kernel_setup,      *)
(* which is not part of the sources; they are modelled from the            *)
(* specification (sections 1, 4.1, 6 and 8).                               *)
(***************************************************************************)
EXTENDS Integers, Sequences, FiniteSets, TLC

(* ------------------------------ bounds -------------------------------- *)

\* Number of analyze actions (and so of event loops) in one session.
MaxActions == 3

\* Number of messages one process_image_and_get_responses call appends.
MaxAppend == 2

\* Length of the chat history: a call that would exceed it does not return.
MaxMessages == 3

(* ----------------------------- constants ------------------------------ *)

\* Python's None as the value of st.session_state["chat"]; handles are 1, 2, ...
None == 0

\* The value of st.file_uploader when nothing is uploaded, and the user's
\* choice of offering nothing.
NoFile == "None"

\* Files the user may offer to the upload widget.
Files == {"photo.png", "pic.jpeg", "anim.gif"}

Extension(f) ==
    CASE f = "photo.png" -> "png"
      [] f = "pic.jpeg" -> "jpeg"
      [] f = "anim.gif" -> "gif"
      [] OTHER -> ""

\* type=["jpg", "jpeg", "png"]
AcceptedTypes == {"jpg", "jpeg", "png"}

\* uploaded_file.getvalue()
NoBytes == <<>>
getvalue(f) == <<"bytes", f>>

\* Messages the collaborator may append.  image_path is optional.
Messages ==
    { [role |-> "assistant", content |-> "Found 3 matching items"],
      [role |-> "user", content |-> "Analyze this", image_path |-> "upload.png"],
      [role |-> "assistant", content |-> "No image", image_path |-> ""] }

\* What one call of process_image_and_get_responses may append: the non-empty
\* sequences of at most MaxAppend messages.
Appends == UNION { [1..n -> Messages] : n \in 1..MaxAppend }

\* initialize_chat() resolves to a handle, never to None; n handles exist already.
initialize_chat(n) == n + 1

\* process_image_and_get_responses(chat, image_bytes) appends its messages to
\* st.session_state["messages"] and returns None.
process_image_and_get_responses(s, new) == [s EXCEPT !["messages"] = @ \o new]

(* ------------------------------- state -------------------------------- *)

VARIABLES
    session_state,   \* st.session_state: a function on a subset of {"messages", "chat"}
    offer,           \* the file the user has put into the upload widget, or NoFile
    uploaded_file,   \* value of st.file_uploader in the latest script run
    clicked,         \* the button whose click started the current script run
    pc,              \* position of the script run inside main()
    transcript,      \* what lines 23-27 drew in the latest script run
    preview,         \* the file drawn by st.image at line 34, or NoFile
    buttons,         \* the buttons drawn by the latest script run
    spinner,         \* TRUE while the st.spinner block is entered
    image_bytes,     \* local variable of the analyze branch
    loop,            \* local variable: the event loop of the analyze branch (0: none)
    loops,           \* number of event loops created so far; loop ids are 1..loops
    open,            \* the event loops that are not closed
    inflight,        \* collaborator calls awaited and not yet returned or raised
    call,            \* the latest collaborator invocation: name, arguments, loop
    exc,             \* exception propagating out of the try block, or "none"
    error,           \* the uncaught exception the latest script run ended with
    rerun,           \* TRUE when st.rerun() started the current script run
    \* History variables, read by the properties only:
    handles,         \* number of handles initialize_chat has returned
    initOk,          \* initialize_chat calls that returned since the last reset
    analyzeOk,       \* analyze actions that completed without error since the last reset
    outcome,         \* how the latest analyze action ended: "none", "ok" or the exception
    before           \* session_state at the start of the latest script run a user event started

vars == << session_state, offer, uploaded_file, clicked, pc, transcript, preview,
           buttons, spinner, image_bytes, loop, loops, open, inflight, call, exc,
           error, handles, initOk, analyzeOk, outcome, rerun, before >>

ui == << transcript, preview, buttons >>
locals == << image_bytes, loop >>
history == << handles, initOk, analyzeOk, outcome, before >>

(* ------------------------- pieces of main() --------------------------- *)

Empty == [k \in {} |-> None]

\* st.session_state[k] for a key that may be absent (read by the properties only).
Get(s, k, dflt) == IF k \in DOMAIN s THEN s[k] ELSE dflt
chat == Get(session_state, "chat", None)
messages == Get(session_state, "messages", <<>>)

\* A variant that assigns "messages" on every script run.
InitSessionState_Overwrite(s) ==
    [messages |-> <<>>, chat |-> Get(s, "chat", None)]

\* Lines 17-20: give "messages" and "chat" their initial values when absent.
InitSessionState(s) ==
    [k \in DOMAIN s \cup {"messages", "chat"} |->
        IF k \in DOMAIN s THEN s[k]
        ELSE IF k = "messages" THEN <<>> ELSE None]

\* Lines 24-27: one chat message as drawn: role, content, and the image when
\* the message has a non-empty image_path.
Display(m) ==
    [role |-> m.role, content |-> m.content,
     image |-> IF "image_path" \in DOMAIN m /\ m.image_path # ""
               THEN m.image_path ELSE ""]

\* Lines 23-27: the chat history in order.
DisplayHistory(s) == [i \in 1..Len(s["messages"]) |-> Display(s["messages"][i])]

\* A variant without the type restriction.
file_uploader_AnyType(f) == f

\* Line 30: the upload widget yields the offered file only when its extension
\* is one of the accepted types.
file_uploader(f) ==
    IF f # NoFile /\ Extension(f) \in AcceptedTypes THEN f ELSE NoFile

\* A variant that initialises on every analyze action.
NeedsInit_Always(s) == TRUE

\* Line 47: the null check guarding the lazy initialisation.
NeedsInit(s) == s["chat"] = None

\* A variant that awaits initialize_chat without keeping its result.
StoreChat_Drop(s, h) == s

\* Line 48: store the handle.
StoreChat(s, h) == [s EXCEPT !["chat"] = h]

\* A variant that passes no handle.
ProcessArgs_NoChat(s, bytes) == [chat |-> None, image |-> bytes]

\* Lines 51-54: the arguments of process_image_and_get_responses.
ProcessArgs(s, bytes) == [chat |-> s["chat"], image |-> bytes]

\* A variant that schedules initialize_chat without waiting for it.
AfterCallInit_NoWait == "call_process"

\* Line 48: run_until_complete blocks until initialize_chat is done.
AfterCallInit == "await_init"

\* A variant that swallows the exception and goes on.
AfterInitRaise_Swallow == "call_process"

\* Lines 45-56: an exception of initialize_chat leaves the try block.
AfterInitRaise == "finally"

\* A variant that closes the loop after the calls instead of in a finally clause.
CloseLoop_OnSuccess(o, l, e) == IF e = "none" THEN o \ {l} ELSE o

\* Lines 55-56: loop.close() runs on every exit of the try block.
CloseLoop(o, l, e) == o \ {l}

\* A variant that removes the indication by hand, after the calls.
SpinnerExit_OnSuccess(e) == e # "none"

\* Line 38: the with block leaves the spinner on every exit.
SpinnerExit(e) == FALSE

\* A variant that empties the transcript only.
Clear_MessagesOnly(s) == [k \in DOMAIN s \ {"messages"} |-> s[k]]

\* Line 60: st.session_state.clear()
Clear(s) == Empty

(* ------------------------------- Init --------------------------------- *)

\* A new session: nothing stored, nothing uploaded, the first script run pending.
Init ==
    /\ session_state = Empty
    /\ offer = NoFile
    /\ uploaded_file = NoFile
    /\ clicked = "none"
    /\ pc = "start"
    /\ transcript = <<>>
    /\ preview = NoFile
    /\ buttons = {}
    /\ spinner = FALSE
    /\ image_bytes = NoBytes
    /\ loop = 0
    /\ loops = 0
    /\ open = {}
    /\ inflight = {}
    /\ call = [name |-> "none"]
    /\ exc = "none"
    /\ error = "none"
    /\ handles = 0
    /\ initOk = 0
    /\ analyzeOk = 0
    /\ outcome = "none"
    /\ rerun = FALSE
    /\ before = Empty

(* ---------------------------- user events ----------------------------- *)

\* The user puts a file into the upload widget, or removes it; the page reruns.
Offer(f) ==
    /\ pc = "idle"
    /\ f # offer
    /\ offer' = f
    /\ clicked' = "none"
    /\ rerun' = FALSE
    /\ pc' = "start"
    /\ UNCHANGED << session_state, uploaded_file, ui, spinner, locals, loops, open,
                    inflight, call, exc, error, history >>

\* The user clicks "Analyze and Find Products"; the page reruns.
ClickAnalyze ==
    /\ pc = "idle"
    /\ "analyze" \in buttons
    /\ loops < MaxActions
    /\ clicked' = "analyze"
    /\ rerun' = FALSE
    /\ pc' = "start"
    /\ UNCHANGED << session_state, offer, uploaded_file, ui, spinner, locals, loops,
                    open, inflight, call, exc, error, history >>

\* The user clicks "Start Over"; the page reruns.
ClickReset ==
    /\ pc = "idle"
    /\ "reset" \in buttons
    /\ clicked' = "reset"
    /\ rerun' = FALSE
    /\ pc' = "start"
    /\ UNCHANGED << session_state, offer, uploaded_file, ui, spinner, locals, loops,
                    open, inflight, call, exc, error, history >>

(* ---------------------------- script run ------------------------------ *)

\* Lines 11-37: session-state defaults, chat history, upload widget, preview,
\* analyze button.
RunTop ==
    /\ pc = "start"
    /\ LET s == InitSessionState(session_state)
           u == file_uploader(offer)
       IN /\ session_state' = s
          /\ transcript' = DisplayHistory(s)
          /\ uploaded_file' = u
          /\ preview' = u
          /\ buttons' = IF u # NoFile THEN {"analyze"} ELSE {}
          /\ pc' = IF u # NoFile /\ clicked = "analyze" THEN "analyze" ELSE "reset_button"
          /\ before' = IF rerun THEN before ELSE s
    /\ error' = "none"
    /\ UNCHANGED << offer, clicked, spinner, locals, loops, open, inflight, call, exc,
                    handles, initOk, analyzeOk, outcome, rerun >>

\* Lines 38-45: enter the spinner, read the bytes, create and set the event loop.
EnterAnalyze ==
    /\ pc = "analyze"
    /\ spinner' = TRUE
    /\ image_bytes' = getvalue(uploaded_file)
    /\ loops' = loops + 1
    /\ loop' = loops + 1
    /\ open' = open \cup {loops + 1}
    /\ exc' = "none"
    /\ pc' = "try"
    /\ UNCHANGED << session_state, offer, uploaded_file, clicked, ui, inflight, call,
                    error, history, rerun >>

\* Lines 47-48: initialize_chat() is called when chat is None.
CallInit ==
    /\ pc = "try"
    /\ NeedsInit(session_state)
    /\ inflight' = inflight \cup {"init"}
    /\ call' = [name |-> "init", loop |-> loop]
    /\ pc' = AfterCallInit
    /\ UNCHANGED << session_state, offer, uploaded_file, clicked, ui, spinner, locals,
                    loops, open, exc, error, history, rerun >>

\* Line 47: chat is set, the initialisation is skipped.
SkipInit ==
    /\ pc = "try"
    /\ ~NeedsInit(session_state)
    /\ pc' = "call_process"
    /\ UNCHANGED << session_state, offer, uploaded_file, clicked, ui, spinner, locals,
                    loops, open, inflight, call, exc, error, history, rerun >>

\* Line 48: initialize_chat() returns a new handle, which is stored.
InitReturns ==
    /\ pc = "await_init"
    /\ "init" \in inflight
    /\ inflight' = inflight \ {"init"}
    /\ handles' = handles + 1
    /\ session_state' = StoreChat(session_state, initialize_chat(handles))
    /\ initOk' = initOk + 1
    /\ pc' = "call_process"
    /\ UNCHANGED << offer, uploaded_file, clicked, ui, spinner, locals, loops, open,
                    call, exc, error, analyzeOk, outcome, rerun, before >>

\* Line 48: initialize_chat() raises; nothing is stored.
InitRaises ==
    /\ pc = "await_init"
    /\ "init" \in inflight
    /\ inflight' = inflight \ {"init"}
    /\ exc' = "initialize_chat"
    /\ pc' = AfterInitRaise
    /\ UNCHANGED << session_state, offer, uploaded_file, clicked, ui, spinner, locals,
                    loops, open, call, error, history, rerun >>

\* Lines 51-54: process_image_and_get_responses(chat, image_bytes) is called.
CallProcess ==
    /\ pc = "call_process"
    /\ inflight' = inflight \cup {"process"}
    /\ call' = [name |-> "process", loop |-> loop,
                args |-> ProcessArgs(session_state, image_bytes)]
    /\ pc' = "await_process"
    /\ UNCHANGED << session_state, offer, uploaded_file, clicked, ui, spinner, locals,
                    loops, open, exc, error, history, rerun >>

\* The collaborator returns, having appended its messages to the transcript.
ProcessReturns(new) ==
    /\ pc = "await_process"
    /\ "process" \in inflight
    /\ Len(session_state["messages"]) + Len(new) <= MaxMessages
    /\ inflight' = inflight \ {"process"}
    /\ session_state' = process_image_and_get_responses(session_state, new)
    /\ call' = [call EXCEPT !.name = "processed"] @@ [appended |-> new]
    /\ pc' = "finally"
    /\ UNCHANGED << offer, uploaded_file, clicked, ui, spinner, locals, loops, open,
                    exc, error, history, rerun >>

\* The collaborator raises, having appended nothing.
ProcessRaises ==
    /\ pc = "await_process"
    /\ "process" \in inflight
    /\ inflight' = inflight \ {"process"}
    /\ exc' = "process_image_and_get_responses"
    /\ pc' = "finally"
    /\ UNCHANGED << session_state, offer, uploaded_file, clicked, ui, spinner, locals,
                    loops, open, call, error, history, rerun >>

\* Lines 55-56 and the end of the with block: the loop is closed and the
\* spinner left; an exception then ends the script run uncaught.
Finally ==
    /\ pc = "finally"
    /\ open' = CloseLoop(open, loop, exc)
    /\ spinner' = SpinnerExit(exc)
    /\ error' = exc
    /\ exc' = "none"
    /\ analyzeOk' = IF exc = "none" THEN analyzeOk + 1 ELSE analyzeOk
    /\ outcome' = IF exc = "none" THEN "ok" ELSE exc
    /\ pc' = IF exc = "none" THEN "reset_button" ELSE "idle"
    /\ UNCHANGED << session_state, offer, uploaded_file, clicked, ui, locals, loops,
                    inflight, call, handles, initOk, rerun, before >>

\* Line 59 without a click: the button is drawn and the script run ends.
ResetButton ==
    /\ pc = "reset_button"
    /\ clicked # "reset"
    /\ buttons' = buttons \cup {"reset"}
    /\ pc' = "idle"
    /\ UNCHANGED << session_state, offer, uploaded_file, clicked, transcript, preview,
                    spinner, locals, loops, open, inflight, call, exc, error, history, rerun >>

\* Lines 59-61 after a click on "Start Over": clear the session state and rerun.
Reset ==
    /\ pc = "reset_button"
    /\ clicked = "reset"
    /\ buttons' = buttons \cup {"reset"}
    /\ session_state' = Clear(session_state)
    /\ clicked' = "none"
    /\ initOk' = 0
    /\ analyzeOk' = 0
    /\ outcome' = "none"
    /\ rerun' = TRUE
    /\ pc' = "start"
    /\ UNCHANGED << offer, uploaded_file, transcript, preview, spinner, locals, loops,
                    open, inflight, call, exc, error, handles, before >>

Next ==
    \/ \E f \in Files \cup {NoFile} : Offer(f)
    \/ ClickAnalyze
    \/ ClickReset
    \/ RunTop
    \/ EnterAnalyze
    \/ CallInit
    \/ SkipInit
    \/ InitReturns
    \/ InitRaises
    \/ CallProcess
    \/ \E new \in Appends : ProcessReturns(new)
    \/ ProcessRaises
    \/ Finally
    \/ ResetButton
    \/ Reset

Spec == Init /\ [][Next]_vars

(* ----------------------------- properties ----------------------------- *)

\* Positions of the script outside the analyze branch.
Outside == {"start", "reset_button", "idle"}

\* Positions inside the try statement of the analyze branch.
InTry == {"try", "await_init", "call_process", "await_process", "finally"}

\* The step of lines 59-61 that clears the session state.
ResetStep == pc = "reset_button" /\ clicked = "reset"

\* The script run that a click on the analyze button started has ended
\* without an exception.
AnalyzeSucceeded ==
    /\ clicked = "analyze"
    /\ pc \in {"reset_button", "idle"}
    /\ error = "none"

\* The state of the session lifecycle of section 4.1.
Class ==
    IF chat = None
    THEN IF messages = <<>> THEN "Empty" ELSE "Invalid"
    ELSE IF messages = <<>> THEN "Initialized" ELSE "Active"

\* C1 as stated: chat is None until an analyze action in which both
\* initialize_chat and process_image_and_get_responses returned without error.
C1_ChatNoneUntilSuccessfulAnalyze ==
    (pc = "idle" /\ analyzeOk = 0) => chat = None

\* C1 as amended: chat is None until the first analyze action in which
\* initialize_chat returns (whatever process_image_and_get_responses does
\* afterwards); from then on it is non-null, it changes only by a reset, and it
\* is the handle every process_image_and_get_responses call of the session gets.
C1_LazyInit ==
    /\ [](/\ (chat = None) <=> (initOk = 0)
          /\ "process" \in inflight => (call.args.chat = chat /\ chat # None))
    /\ [][(chat # None /\ chat' # chat) => (ResetStep /\ chat' = None)]_vars

\* An analyze action passes on the handle that an earlier, failed analyze
\* action of the session created.
C1_Witness ==
    /\ "process" \in inflight
    /\ outcome = "process_image_and_get_responses"
    /\ analyzeOk = 0
    /\ before["chat"] # None
    /\ call.args.chat = before["chat"]

\* C2: after a reset the next render cycle finds messages empty and chat None,
\* whatever they were before.
C2_ResetClears ==
    rerun =>
        /\ messages = <<>>
        /\ chat = None
        /\ pc # "start" =>
            /\ session_state = [messages |-> <<>>, chat |-> None]
            /\ transcript = <<>>

\* A reset of a session with two messages and a handle has been rendered.
C2_Witness ==
    /\ rerun
    /\ pc = "idle"
    /\ Len(before["messages"]) = 2
    /\ before["chat"] # None
    /\ transcript = <<>>

\* C3: once initialize_chat has returned, it is not invoked again until a
\* reset: it is in flight only while no call of it has returned since the last
\* reset, so at most one call of it returns between two resets.
C3_InitOnce ==
    /\ initOk <= 1
    /\ "init" \in inflight => (initOk = 0 /\ chat = None)
    /\ pc = "await_init" => "init" \in inflight

\* A later analyze action has skipped the initialisation.
C3_Witness ==
    /\ pc = "call_process"
    /\ initOk = 1
    /\ call.name # "init"
    /\ call.loop < loop

\* C4: when process_image_and_get_responses raises, the exception leaves the
\* script run uncaught, the processing indication is gone when the action has
\* ended, and messages holds what it held when the action started.
C4_ProcessRaises ==
    /\ [](/\ exc = "process_image_and_get_responses" =>
                (pc = "finally" /\ messages = before["messages"])
          /\ error = "process_image_and_get_responses" =>
                /\ pc \in {"idle", "start"}
                /\ ~spinner
                /\ "reset" \notin buttons
                /\ messages = before["messages"])
    /\ [][exc = "process_image_and_get_responses" =>
            (error' = exc /\ pc' = "idle" /\ ~spinner')]_vars

\* The call has raised in a session that already had messages.
C4_Witness ==
    /\ error = "process_image_and_get_responses"
    /\ pc = "idle"
    /\ messages # <<>>

\* C5: process_image_and_get_responses is invoked only when initialize_chat is
\* over, no two collaborator calls overlap, the processing indication is shown
\* while a call is in flight, and no user action is taken up before then.
C5_Ordering ==
    /\ Cardinality(inflight) <= 1
    /\ "process" \in inflight => (pc = "await_process" /\ chat # None)
    /\ "init" \in inflight => pc = "await_init"
    /\ inflight # {} => spinner
    /\ pc \in Outside \cup {"analyze"} => (inflight = {} /\ ~spinner)

\* process_image_and_get_responses is in flight in the action that initialised.
C5_Witness ==
    /\ "process" \in inflight
    /\ before["chat"] = None
    /\ call.loop = loop

\* C6: every analyze action creates one event loop, makes its calls on it and
\* has closed it when it ends, on every exit path.
C6_LoopPerAction ==
    /\ [](/\ pc \in InTry => (open = {loop} /\ loop = loops)
          /\ pc \notin InTry => open = {}
          /\ inflight # {} => call.loop = loop)
    /\ [][/\ pc = "analyze" => (loops' = loops + 1 /\ loop' = loops')
          /\ pc # "analyze" => (loops' = loops /\ loop' = loop)]_vars

\* Two analyze actions have ended, the latest by an exception of initialize_chat.
C6_Witness ==
    /\ pc = "idle"
    /\ error = "initialize_chat"
    /\ loops >= 2
    /\ open = {}

\* C7: in a render cycle without an uploaded file, or whose offered file has
\* an extension outside jpg, jpeg, png, there is no preview and no analyze
\* button, and neither collaborator is invoked.
C7_NeedsImage ==
    /\ (pc # "start" /\ (offer = NoFile \/ Extension(offer) \notin AcceptedTypes)) =>
            /\ uploaded_file = NoFile
            /\ preview = NoFile
            /\ "analyze" \notin buttons
            /\ pc \in Outside
            /\ inflight = {}
    /\ pc \notin Outside =>
            /\ uploaded_file # NoFile
            /\ preview = uploaded_file
            /\ Extension(uploaded_file) \in AcceptedTypes

\* A .gif has been offered and the page rendered.
C7_Witness ==
    /\ offer = "anim.gif"
    /\ pc = "idle"
    /\ preview = NoFile
    /\ buttons = {"reset"}

\* C8: messages is never non-empty while chat is None, and the session moves
\* between Empty, Initialized and Active only by the lazy initialisation, by a
\* process_image_and_get_responses call that returns, and by a reset.
C8_Lifecycle ==
    /\ [](Class # "Invalid")
    /\ [][Class' # Class =>
            \/ /\ Class = "Empty"
               /\ Class' = "Initialized"
               /\ pc = "await_init"
            \/ /\ Class \in {"Initialized", "Active"}
               /\ Class' = "Active"
               /\ pc = "await_process"
               /\ exc' = "none"
            \/ /\ Class' = "Empty"
               /\ ResetStep]_vars

\* The session rests in Initialized: a handle and no message.
C8_Witness ==
    /\ Class = "Initialized"
    /\ pc = "idle"
    /\ "reset" \in buttons

\* C9: session_state holds nothing but the transcript and the handle; a render
\* and an upload leave both as they are; messages changes only by what a
\* process_image_and_get_responses call appends and by a reset; and after a
\* successful analyze action it is its earlier value followed by the messages
\* of that one call, which got the handle and the bytes of the uploaded file.
C9_Frame ==
    /\ [](/\ DOMAIN session_state \subseteq {"messages", "chat"}
          /\ chat \in 0..handles
          /\ messages \in Seq(Messages)
          /\ AnalyzeSucceeded =>
                /\ call.name = "processed"
                /\ call.loop = loop
                /\ call.args = [chat |-> chat, image |-> getvalue(uploaded_file)]
                /\ messages = before["messages"] \o call.appended)
    /\ [][/\ pc \in {"idle", "start"} => (messages' = messages /\ chat' = chat)
          /\ messages' # messages =>
                \/ pc = "await_process" /\ \E new \in Appends : messages' = messages \o new
                \/ ResetStep /\ messages' = <<>>]_vars

\* From an empty session, one analyze action has appended one assistant message.
C9_Witness ==
    /\ AnalyzeSucceeded
    /\ pc = "idle"
    /\ before = [messages |-> <<>>, chat |-> None]
    /\ messages = << [role |-> "assistant", content |-> "Found 3 matching items"] >>

\* C10: when initialize_chat raises, chat stays None, the action makes no
\* other collaborator call, messages is as it was, and the next analyze action
\* invokes initialize_chat again.
C10_InitRaises ==
    /\ []((exc = "initialize_chat" \/ error = "initialize_chat") =>
            /\ chat = None
            /\ messages = before["messages"]
            /\ call.name = "init"
            /\ call.loop = loop)
    /\ [][(outcome = "initialize_chat" /\ pc = "try") =>
            (pc' = "await_init" /\ call'.name = "init" /\ call'.loop = loop)]_vars

\* The analyze action after a failed initialisation awaits initialize_chat.
C10_Witness ==
    /\ pc = "await_init"
    /\ outcome = "initialize_chat"
    /\ "init" \in inflight

====
